---- MODULE Spec2Model ----
(***************************************************************************)
(* Model of dags/dbt_rental_property_dag.py: the Airflow DAG               *)
(* dbt_rental_property_pipeline, its three branch callables, its two       *)
(* freshness handlers, the templated command of                            *)
(* fct_daily_listing_performance, and one run of the graph under the       *)
(* trigger rules the DAG declares.                                         *)
(*                                                                         *)
(* Task ids are written without their TaskGroup prefix (staging.,          *)
(* intermediate., marts., analytics.).  Task statuses use the vocabulary   *)
(* of the specification; UP_FOR_RETRY is the state of a task whose attempt *)
(* failed with retries remaining.                                          *)
(***************************************************************************)
EXTENDS Integers, Sequences, FiniteSets, TLC

VARIABLES status, tries, relay, selected, probe, reported, variant, failures

vars == <<status, tries, relay, selected, probe, reported, variant, failures>>

----------------------------------------------------------------------------
(* Bounds of the model *)

\* longest list of results in target/sources.json
MaxSources == 2
\* most characters of probe output kept after the text LATE_ARRIVAL_COUNT=
MaxTail == 2
\* most attempts per run that fail by a non-zero exit or a timeout
MaxFailures == 3

(* default_args *)
retries == 2

----------------------------------------------------------------------------
(* The graph *)

staging_group ==
    {"stg_listings", "stg_calendar", "stg_reviews", "stg_amenities_changelog"}

intermediate_group ==
    {"int_listing_amenities_scd", "int_hosts_history", "int_availability_spans",
     "int_listings_history", "int_calendar_enriched"}

marts_group ==
    {"dim_date", "dim_hosts", "dim_listings", "fct_daily_listing_performance",
     "fct_monthly_listing_performance", "fct_monthly_neighborhood_summary"}

analytics_group ==
    {"problem_1_amenity_revenue", "problem_2_neighborhood_pricing",
     "problem_3a_max_stay_duration", "problem_3b_max_stay_lockbox_firstaid"}

DecisionTasks ==
    {"check_source_freshness", "check_late_arrivals", "check_schema_changes"}

PythonTasks == {"source_freshness_warning", "source_freshness_failed"}

EmptyTasks ==
    {"start", "source_freshness_passed", "freshness_check_complete",
     "schema_changed", "schema_unchanged", "schema_check_complete",
     "late_arrivals_detected", "late_arrivals_clean",
     "late_arrivals_check_complete", "end"}

BashTasks ==
    {"dbt_deps", "dbt_debug", "dbt_test", "dbt_docs_generate"}
        \cup staging_group \cup intermediate_group \cup marts_group
        \cup analytics_group

Tasks == DecisionTasks \cup PythonTasks \cup EmptyTasks \cup BashTasks

\* dependencies declared inside the task groups
intermediate_edges ==
    {<<"int_listing_amenities_scd", "int_listings_history">>,
     <<"int_listing_amenities_scd", "int_calendar_enriched">>}

marts_edges ==
    {<<"dim_date", "dim_listings">>, <<"dim_hosts", "dim_listings">>,
     <<"dim_listings", "fct_daily_listing_performance">>,
     <<"fct_daily_listing_performance", "fct_monthly_listing_performance">>,
     <<"fct_daily_listing_performance", "fct_monthly_neighborhood_summary">>}

GroupEdges == intermediate_edges \cup marts_edges

\* a group on the right of >> stands for its roots, on the left for its leaves
Roots(g) == {t \in g : ~ \E e \in GroupEdges : e[2] = t /\ e[1] \in g}
Leaves(g) == {t \in g : ~ \E e \in GroupEdges : e[1] = t /\ e[2] \in g}

\* the freshness flow: source_freshness_failed is not joined
FreshnessWithFailedJoined ==
    {<<"start", "check_source_freshness">>,
     <<"check_source_freshness", "source_freshness_passed">>,
     <<"check_source_freshness", "source_freshness_warning">>,
     <<"check_source_freshness", "source_freshness_failed">>,
     <<"source_freshness_passed", "freshness_check_complete">>,
     <<"source_freshness_warning", "freshness_check_complete">>,
     <<"source_freshness_failed", "freshness_check_complete">>}

FreshnessEdges ==
    {<<"start", "check_source_freshness">>,
     <<"check_source_freshness", "source_freshness_passed">>,
     <<"check_source_freshness", "source_freshness_warning">>,
     <<"check_source_freshness", "source_freshness_failed">>,
     <<"source_freshness_passed", "freshness_check_complete">>,
     <<"source_freshness_warning", "freshness_check_complete">>}

\* freshness_check_complete >> dbt_deps >> dbt_debug >> staging_group
SetupEdgesStagingUnwired ==
    {<<"freshness_check_complete", "dbt_deps">>, <<"dbt_deps", "dbt_debug">>}

SetupEdges ==
    {<<"freshness_check_complete", "dbt_deps">>, <<"dbt_deps", "dbt_debug">>}
        \cup ({"dbt_debug"} \X Roots(staging_group))

\* staging_group >> intermediate_group >> check_late_arrivals and its branches
LateArrivalEdges ==
    (Leaves(staging_group) \X Roots(intermediate_group))
        \cup (Leaves(intermediate_group) \X {"check_late_arrivals"})
        \cup {<<"check_late_arrivals", "late_arrivals_detected">>,
              <<"check_late_arrivals", "late_arrivals_clean">>,
              <<"late_arrivals_detected", "late_arrivals_check_complete">>,
              <<"late_arrivals_clean", "late_arrivals_check_complete">>}

\* late_arrivals_check_complete >> check_schema_changes and its branches
SchemaEdgesBranchUnwired ==
    {<<"late_arrivals_check_complete", "check_schema_changes">>,
     <<"check_schema_changes", "schema_changed">>,
     <<"late_arrivals_check_complete", "schema_unchanged">>,
     <<"schema_changed", "schema_check_complete">>,
     <<"schema_unchanged", "schema_check_complete">>}

SchemaEdges ==
    {<<"late_arrivals_check_complete", "check_schema_changes">>,
     <<"check_schema_changes", "schema_changed">>,
     <<"check_schema_changes", "schema_unchanged">>,
     <<"schema_changed", "schema_check_complete">>,
     <<"schema_unchanged", "schema_check_complete">>}

MartsEdgesFromLateJoin ==
    ({"late_arrivals_check_complete"} \X Roots(marts_group))
        \cup (Leaves(marts_group) \X Roots(analytics_group))
        \cup (Leaves(analytics_group) \X {"dbt_test"})
        \cup {<<"dbt_test", "dbt_docs_generate">>, <<"dbt_docs_generate", "end">>}

\* schema_check_complete >> marts_group >> analytics_group >> dbt_test >> dbt_docs >> end
MartsEdges ==
    ({"schema_check_complete"} \X Roots(marts_group))
        \cup (Leaves(marts_group) \X Roots(analytics_group))
        \cup (Leaves(analytics_group) \X {"dbt_test"})
        \cup {<<"dbt_test", "dbt_docs_generate">>, <<"dbt_docs_generate", "end">>}

PipelineEdges == SetupEdges \cup LateArrivalEdges \cup SchemaEdges \cup MartsEdges

Edges == FreshnessEdges \cup GroupEdges \cup PipelineEdges

UpstreamOf == [t \in Tasks |-> {e[1] : e \in {d \in Edges : d[2] = t}}]
DownstreamOf == [t \in Tasks |-> {e[2] : e \in {d \in Edges : d[1] = t}}]

Upstream(t) == UpstreamOf[t]
Downstream(t) == DownstreamOf[t]

\* trigger_rule of each operator; all_success where none is given
TriggerRuleJoinsAllDone(t) ==
    CASE t \in {"source_freshness_failed", "freshness_check_complete",
                "schema_check_complete", "late_arrivals_check_complete"} -> "all_done"
      [] OTHER -> "all_success"

TriggerRuleAllDone(t) == "all_done"

TriggerRuleHandlerDefault(t) ==
    CASE t \in {"freshness_check_complete", "schema_check_complete",
                "late_arrivals_check_complete"} -> "none_failed_min_one_success"
      [] OTHER -> "all_success"

TriggerRule(t) ==
    CASE t = "source_freshness_failed" -> "all_done"
      [] t \in {"freshness_check_complete", "schema_check_complete",
                "late_arrivals_check_complete"} -> "none_failed_min_one_success"
      [] OTHER -> "all_success"

Joins ==
    {"freshness_check_complete", "late_arrivals_check_complete", "schema_check_complete"}

RECURSIVE Reach(_)
Reach(S) ==
    LET n == S \cup UNION {Downstream(t) : t \in S}
    IN  IF n = S THEN S ELSE Reach(n)

\* every task downstream of t, directly or not
Descendants(t) == Reach(Downstream(t))

----------------------------------------------------------------------------
(* Task statuses and the trigger-rule resolver *)

Terminal == {"SUCCESS", "FAILED", "SKIPPED_BRANCH", "SKIPPED_UPSTREAM"}
Skipped == {"SKIPPED_BRANCH", "SKIPPED_UPSTREAM"}
Status == {"PENDING", "QUEUED", "RUNNING", "UP_FOR_RETRY"} \cup Terminal

\* ready(node, upstreamStatuses): ups is the set of the upstream statuses
ready(rule, ups) ==
    CASE rule = "all_success" ->
            IF ups \cap ({"FAILED"} \cup Skipped) # {} THEN "Blocked"
            ELSE IF ups \subseteq {"SUCCESS"} THEN "Ready"
            ELSE "NotYetReady"
      [] rule = "all_done" ->
            IF ups \subseteq Terminal THEN "Ready" ELSE "NotYetReady"
      [] rule = "none_failed_min_one_success" ->
            IF "FAILED" \in ups THEN "Blocked"
            ELSE IF ~ (ups \subseteq Terminal) THEN "NotYetReady"
            ELSE IF "SUCCESS" \in ups THEN "Ready"
            ELSE "Blocked"

Verdict(t) == ready(TriggerRule(t), {status[u] : u \in Upstream(t)})

AllTerminal == \A t \in Tasks : status[t] \in Terminal

\* outcome of the run
RunOutcome ==
    IF ~ AllTerminal THEN "Running"
    ELSE IF \E t \in Tasks : status[t] = "FAILED" THEN "Failed"
    ELSE "Success"

----------------------------------------------------------------------------
(* Probe results: what subprocess.run and the artifact give a callable *)

NoProbe == [kind |-> "none"]

SourceStatus == {"pass", "warn", "error", "runtime error"}

SeqsUpTo(S, n) == UNION {[1..k -> S] : k \in 0..n}

\* target/sources.json: absent, unreadable as JSON, or a list of results
Artifacts ==
    {[file |-> "missing", results |-> <<>>],
     [file |-> "malformed", results |-> <<>>]}
        \cup {[file |-> "ok", results |-> r] : r \in SeqsUpTo(SourceStatus, MaxSources)}

FreshnessProbes ==
    {[kind |-> "freshness", returncode |-> rc, stderrRuntimeError |-> re,
      artifact |-> a] : rc \in {0, 1}, re \in BOOLEAN, a \in Artifacts}

\* marker: 'SCHEMA CHANGE DETECTED' occurs in stdout + stderr
SchemaProbes ==
    {[kind |-> "schema", returncode |-> rc, marker |-> m] :
        rc \in {0, 1}, m \in BOOLEAN}

\* marker: LATE_ARRIVAL_COUNT= occurs in stdout + stderr; tail: what follows it
Chars == {"0", "5", "\\", "d"}
Digits == {"0", "5"}

LateProbes ==
    {[kind |-> "late", returncode |-> rc, marker |-> FALSE, tail |-> <<>>] :
        rc \in {0, 1}}
        \cup {[kind |-> "late", returncode |-> rc, marker |-> TRUE, tail |-> s] :
                rc \in {0, 1}, s \in SeqsUpTo(Chars, MaxTail)}

ProbesOf(t) ==
    CASE t = "check_source_freshness" -> FreshnessProbes
      [] t = "check_late_arrivals" -> LateProbes
      [] t = "check_schema_changes" -> SchemaProbes

\* What the probed system told the attempt that returned, kept for the run:
\* the callables themselves keep nothing but their pushes and their branch.
\* The count a late-arrival probe reports is the decimal number after its marker.
RECURSIVE Run(_, _)
Run(s, S) ==
    IF s = <<>> \/ Head(s) \notin S THEN <<>> ELSE <<Head(s)>> \o Run(Tail(s), S)

DigitValue(c) == IF c = "5" THEN 5 ELSE 0

RECURSIVE Decimal(_)
Decimal(s) ==
    IF s = <<>> THEN 0 ELSE 10 * Decimal(SubSeq(s, 1, Len(s) - 1)) + DigitValue(s[Len(s)])

HasCount(p) == p.marker /\ Run(p.tail, Digits) # <<>>
ReportedCount(p) == IF HasCount(p) THEN Decimal(Run(p.tail, Digits)) ELSE 0

InResults(p, s) ==
    p.artifact.file = "ok" /\ \E i \in 1..Len(p.artifact.results) : p.artifact.results[i] = s

Report(p) ==
    CASE p.kind = "freshness" ->
            [kind |-> "freshness",
             sourceError |-> InResults(p, "error"),
             allFresh |-> /\ p.returncode = 0
                          /\ p.artifact.file = "ok"
                          /\ p.artifact.results # <<>>
                          /\ \A i \in 1..Len(p.artifact.results) :
                                p.artifact.results[i] = "pass"]
      [] p.kind = "schema" -> [kind |-> "schema", drift |-> p.marker]
      [] p.kind = "late" -> [kind |-> "late", lateRows |-> ReportedCount(p) > 0]

----------------------------------------------------------------------------
(* The branch callables *)

check_schema_changes_swapped(p) ==
    IF ~ p.marker
    THEN [raised |-> FALSE, ret |-> "schema_changed",
          push |-> (<<"check_schema_changes", "refresh_strategy">> :> "full_refresh")]
    ELSE [raised |-> FALSE, ret |-> "schema_unchanged",
          push |-> (<<"check_schema_changes", "refresh_strategy">> :> "incremental")]

check_schema_changes_push_swapped(p) ==
    IF p.marker
    THEN [raised |-> FALSE, ret |-> "schema_changed",
          push |-> (<<"check_schema_changes", "refresh_strategy">> :> "incremental")]
    ELSE [raised |-> FALSE, ret |-> "schema_unchanged",
          push |-> (<<"check_schema_changes", "refresh_strategy">> :> "full_refresh")]

check_schema_changes(p) ==
    IF p.marker
    THEN [raised |-> FALSE, ret |-> "schema_changed",
          push |-> (<<"check_schema_changes", "refresh_strategy">> :> "full_refresh")]
    ELSE [raised |-> FALSE, ret |-> "schema_unchanged",
          push |-> (<<"check_schema_changes", "refresh_strategy">> :> "incremental")]

\* re.search(r'LATE_ARRIVAL_COUNT=(\\d+)', output): the pattern of the source is
\* a backslash followed by one or more letters d
re_search(p) ==
    IF p.marker /\ p.tail # <<>> /\ Head(p.tail) = "\\"
          /\ Run(Tail(p.tail), {"d"}) # <<>>
    THEN <<"\\">> \o Run(Tail(p.tail), {"d"})
    ELSE <<>>

\* int(text): -1 stands for ValueError
int(s) == IF s # <<>> /\ \A i \in 1..Len(s) : s[i] \in Digits THEN Decimal(s) ELSE -1

check_late_arrivals(p) ==
    LET match == re_search(p)
        late_count == IF match # <<>> THEN int(match) ELSE 0
    IN  IF late_count < 0
        THEN [raised |-> TRUE, ret |-> "none", push |-> <<>>]
        ELSE [raised |-> FALSE,
              ret |-> IF late_count > 0 THEN "late_arrivals_detected"
                      ELSE "late_arrivals_clean",
              push |-> (<<"check_late_arrivals", "late_arrivals_detected">> :> (late_count > 0))
                       @@ (<<"check_late_arrivals", "late_arrival_count">> :> late_count)]

WithStatus(results, s) == SelectSeq(results, LAMBDA x : x = s)

\* the freshness_results dict after the function body; each source_info is
\* kept as its status
freshness_results_unrecorded(p) ==
    IF p.returncode # 0 /\ p.stderrRuntimeError
    THEN [passed |-> <<>>, warned |-> <<>>, errored |-> <<>>,
          runtime_error |-> "stderr"]
    ELSE IF p.artifact.file \in {"missing", "malformed"}
    THEN [passed |-> <<>>, warned |-> <<>>, errored |-> <<>>,
          runtime_error |-> "None"]
    ELSE [passed |-> WithStatus(p.artifact.results, "pass"),
          warned |-> WithStatus(p.artifact.results, "warn"),
          errored |-> WithStatus(p.artifact.results, "error"),
          runtime_error |-> "None"]

freshness_results(p) ==
    IF p.returncode # 0 /\ p.stderrRuntimeError
    THEN [passed |-> <<>>, warned |-> <<>>, errored |-> <<>>,
          runtime_error |-> "stderr"]
    ELSE IF p.artifact.file = "missing"
    THEN [passed |-> <<>>, warned |-> <<>>, errored |-> <<>>,
          runtime_error |-> "None"]
    ELSE IF p.artifact.file = "malformed"
    THEN [passed |-> <<>>, warned |-> <<>>, errored |-> <<>>,
          runtime_error |-> "exception"]
    ELSE [passed |-> WithStatus(p.artifact.results, "pass"),
          warned |-> WithStatus(p.artifact.results, "warn"),
          errored |-> WithStatus(p.artifact.results, "error"),
          runtime_error |-> "None"]

check_source_freshness_warn_first(p) ==
    LET res == freshness_results(p)
    IN  [raised |-> FALSE,
         ret |-> IF p.returncode # 0 /\ p.stderrRuntimeError
                 THEN "source_freshness_failed"
                 ELSE IF res.warned # <<>> THEN "source_freshness_warning"
                 ELSE IF res.errored # <<>> THEN "source_freshness_failed"
                 ELSE "source_freshness_passed",
         push |-> (<<"check_source_freshness", "freshness_results">> :> res)]

check_source_freshness_early_return_unpushed(p) ==
    LET res == freshness_results(p)
    IN  [raised |-> FALSE,
         ret |-> IF p.returncode # 0 /\ p.stderrRuntimeError
                 THEN "source_freshness_failed"
                 ELSE IF res.errored # <<>> THEN "source_freshness_failed"
                 ELSE IF res.warned # <<>> THEN "source_freshness_warning"
                 ELSE "source_freshness_passed",
         push |-> IF p.returncode # 0 /\ p.stderrRuntimeError
                  THEN <<>>
                  ELSE (<<"check_source_freshness", "freshness_results">> :> res)]

check_source_freshness(p) ==
    LET res == freshness_results(p)
    IN  [raised |-> FALSE,
         ret |-> IF p.returncode # 0 /\ p.stderrRuntimeError
                 THEN "source_freshness_failed"
                 ELSE IF res.errored # <<>> THEN "source_freshness_failed"
                 ELSE IF res.warned # <<>> THEN "source_freshness_warning"
                 ELSE "source_freshness_passed",
         push |-> (<<"check_source_freshness", "freshness_results">> :> res)]

python_callable(t, p) ==
    CASE t = "check_source_freshness" -> check_source_freshness(p)
      [] t = "check_late_arrivals" -> check_late_arrivals(p)
      [] t = "check_schema_changes" -> check_schema_changes(p)

----------------------------------------------------------------------------
(* The relay (XCom) and the command of fct_daily_listing_performance *)

RelayKeys ==
    {<<"check_source_freshness", "freshness_results">>,
     <<"check_schema_changes", "refresh_strategy">>,
     <<"check_late_arrivals", "late_arrivals_detected">>,
     <<"check_late_arrivals", "late_arrival_count">>}

Has(k) == k \in DOMAIN relay

\* "{{ ti.xcom_pull(key=..., task_ids=...) }}": a missing entry is pulled as
\* None and rendered as the text None, a boolean as True or False
SCHEMA_STRATEGY ==
    IF Has(<<"check_schema_changes", "refresh_strategy">>)
    THEN relay[<<"check_schema_changes", "refresh_strategy">>]
    ELSE "None"

LATE_ARRIVALS ==
    IF Has(<<"check_late_arrivals", "late_arrivals_detected">>)
    THEN IF relay[<<"check_late_arrivals", "late_arrivals_detected">>]
         THEN "True" ELSE "False"
    ELSE "None"

\* the variant the bash_command of fct_daily runs
fct_daily ==
    IF SCHEMA_STRATEGY = "full_refresh" \/ LATE_ARRIVALS = "True"
    THEN "full_refresh"
    ELSE "incremental"

\* handle_freshness_warning and handle_freshness_failure call results.get on
\* what xcom_pull returned; handle_freshness_failure always raises at its end
handle_freshness_warning_raises ==
    ~ Has(<<"check_source_freshness", "freshness_results">>)

handle_freshness_failure_raises == TRUE

Raises(t) ==
    CASE t = "source_freshness_warning" -> handle_freshness_warning_raises
      [] t = "source_freshness_failed" -> handle_freshness_failure_raises
      [] t \in DecisionTasks -> probe[t] # NoProbe /\ python_callable(t, probe[t]).raised
      [] OTHER -> FALSE

----------------------------------------------------------------------------
(* One run of the DAG *)

TypeOK ==
    /\ status \in [Tasks -> Status]
    /\ tries \in [Tasks -> 0..retries]
    /\ DOMAIN relay \subseteq RelayKeys
    /\ selected \in [DecisionTasks -> Tasks \cup {"none"}]
    /\ \A t \in DecisionTasks : probe[t] \in ProbesOf(t) \cup {NoProbe}
    /\ \A t \in DecisionTasks :
          reported[t] \in {Report(p) : p \in ProbesOf(t)} \cup {NoProbe}
    /\ variant \in {"none", "incremental", "full_refresh"}
    /\ failures \in 0..MaxFailures

Init ==
    /\ status = [t \in Tasks |-> "PENDING"]
    /\ tries = [t \in Tasks |-> 0]
    /\ relay = <<>>
    /\ selected = [t \in DecisionTasks |-> "none"]
    /\ probe = [t \in DecisionTasks |-> NoProbe]
    /\ reported = [t \in DecisionTasks |-> NoProbe]
    /\ variant = "none"
    /\ failures = 0

\* one scan of the scheduler over the tasks that are not terminal
Scan(t) ==
    CASE status[t] = "PENDING" /\ Verdict(t) = "Ready" -> "QUEUED"
      [] status[t] = "PENDING" /\ Verdict(t) = "Blocked" -> "SKIPPED_UPSTREAM"
      [] status[t] = "UP_FOR_RETRY" -> "QUEUED"
      [] OTHER -> status[t]

Schedule ==
    /\ \E t \in Tasks : Scan(t) # status[t]
    /\ status' = [t \in Tasks |-> Scan(t)]
    /\ UNCHANGED <<tries, relay, selected, probe, reported, variant, failures>>

\* the queued tasks start an attempt: a branch callable runs its probe, the
\* command of fct_daily_listing_performance is rendered
Dispatch ==
    /\ \E t \in Tasks : status[t] = "QUEUED"
    /\ status' = [t \in Tasks |-> IF status[t] = "QUEUED" THEN "RUNNING" ELSE status[t]]
    /\ LET qd == {t \in DecisionTasks : status[t] = "QUEUED"}
       IN  \E f \in [qd -> UNION {ProbesOf(t) : t \in qd}] :
              /\ \A t \in qd : f[t] \in ProbesOf(t)
              /\ probe' = [t \in DecisionTasks |-> IF t \in qd THEN f[t] ELSE probe[t]]
    /\ variant' = IF status["fct_daily_listing_performance"] = "QUEUED"
                  THEN fct_daily ELSE variant
    /\ UNCHANGED <<tries, relay, selected, reported, failures>>

\* the status after a failed attempt
AfterFailureAlwaysFailed(t) == "FAILED"

AfterFailureAlwaysRetry(t) == "UP_FOR_RETRY"

AfterFailure(t) == IF tries[t] < retries THEN "UP_FOR_RETRY" ELSE "FAILED"

\* tries[t] counts the failed attempts of a task that can still run again;
\* nothing reads it once the task is terminal, and it is kept at 0 from then on
AttemptFails(t) ==
    /\ status' = [status EXCEPT ![t] = AfterFailure(t)]
    /\ tries' = [tries EXCEPT ![t] = IF tries[t] < retries THEN tries[t] + 1 ELSE 0]
    /\ probe' = IF t \in DecisionTasks THEN [probe EXCEPT ![t] = NoProbe] ELSE probe

\* an operator, a command or a handler ends without error
TaskSucceeds(t) ==
    /\ t \notin DecisionTasks
    /\ status[t] = "RUNNING"
    /\ ~ Raises(t)
    /\ status' = [status EXCEPT ![t] = "SUCCESS"]
    /\ tries' = [tries EXCEPT ![t] = 0]
    /\ UNCHANGED <<relay, selected, probe, reported, variant, failures>>

\* a command exits non-zero, or an attempt exceeds execution_timeout
CommandFails(t) ==
    /\ t \notin EmptyTasks
    /\ status[t] = "RUNNING"
    /\ failures < MaxFailures
    /\ failures' = failures + 1
    /\ AttemptFails(t)
    /\ UNCHANGED <<relay, selected, reported, variant>>

\* a python callable raises
CallableRaisesAfterPush(t) ==
    /\ t \in PythonTasks \cup DecisionTasks
    /\ status[t] = "RUNNING"
    /\ Raises(t)
    /\ AttemptFails(t)
    /\ relay' = IF t = "check_late_arrivals"
                THEN (<<"check_late_arrivals", "late_arrivals_detected">> :> FALSE)
                     @@ (<<"check_late_arrivals", "late_arrival_count">> :> 0)
                     @@ relay
                ELSE relay
    /\ UNCHANGED <<selected, reported, variant, failures>>

CallableRaises(t) ==
    /\ t \in PythonTasks \cup DecisionTasks
    /\ status[t] = "RUNNING"
    /\ Raises(t)
    /\ AttemptFails(t)
    /\ UNCHANGED <<relay, selected, reported, variant, failures>>

\* BranchPythonOperator: the direct successors of t that are skipped when its
\* callable returned ret
SkippedByBranchExceptAllDone(t, ret) ==
    {u \in Downstream(t) : u # ret /\ TriggerRule(u) # "all_done"}

SkippedByBranchKeepingPassed(t, ret) ==
    {u \in Downstream(t) :
        u # ret /\ ~ (ret = "source_freshness_warning" /\ u = "source_freshness_passed")}

SkippedByBranch(t, ret) == {u \in Downstream(t) : u # ret}

\* a branch callable returns: its pushes are written, the task succeeds and
\* the direct successors it did not return are skipped
DecisionReturns(t) ==
    /\ t \in DecisionTasks
    /\ status[t] = "RUNNING"
    /\ ~ Raises(t)
    /\ LET r == python_callable(t, probe[t])
       IN  /\ relay' = r.push @@ relay
           /\ selected' = [selected EXCEPT ![t] = r.ret]
           /\ status' = [u \in Tasks |->
                            IF u = t THEN "SUCCESS"
                            ELSE IF u \in SkippedByBranch(t, r.ret)
                            THEN "SKIPPED_BRANCH"
                            ELSE status[u]]
    /\ probe' = [probe EXCEPT ![t] = NoProbe]
    /\ reported' = [reported EXCEPT ![t] = Report(probe[t])]
    /\ tries' = [tries EXCEPT ![t] = 0]
    /\ UNCHANGED <<variant, failures>>

Next ==
    \/ Schedule
    \/ Dispatch
    \/ \E t \in Tasks : TaskSucceeds(t)
    \/ \E t \in Tasks : CommandFails(t)
    \/ \E t \in Tasks : CallableRaises(t)
    \/ \E t \in Tasks : DecisionReturns(t)

Spec == Init /\ [][Next]_vars

\* the scheduler keeps scanning and the executor keeps starting what is queued
SpecScheduled == Spec /\ WF_vars(Schedule) /\ WF_vars(Dispatch)

\* the scheduler keeps scanning and dispatching, and every attempt that was
\* started ends, by itself or by execution_timeout: a run does not stop while
\* a step is possible
SpecFair == Spec /\ WF_vars(Next)

----------------------------------------------------------------------------
(* fct_daily_listing_performance and its downstream cleared for a re-run of *)
(* a run whose earlier tasks are done; rows of the run's XCom may have been *)
(* deleted since they were written.                                         *)

Cleared ==
    {"fct_daily_listing_performance"} \cup Descendants("fct_daily_listing_performance")

FinishedFreshnessProbes ==
    {[kind |-> "freshness", returncode |-> 0, stderrRuntimeError |-> FALSE,
      artifact |-> [file |-> "ok", results |-> <<s>>]] : s \in {"pass", "warn"}}

FinishedLateProbe ==
    [kind |-> "late", returncode |-> 0, marker |-> TRUE, tail |-> <<"0">>]

InitCompose ==
    \E pf \in FinishedFreshnessProbes, ps \in SchemaProbes, K \in SUBSET RelayKeys :
        LET rf == check_source_freshness(pf)
            rl == check_late_arrivals(FinishedLateProbe)
            rs == check_schema_changes(ps)
            written == rf.push @@ rl.push @@ rs.push
            taken == {rf.ret, rl.ret, rs.ret}
            branches == UNION {Downstream(t) : t \in DecisionTasks}
        IN  /\ status = [t \in Tasks |->
                            IF t \in Cleared THEN "PENDING"
                            ELSE IF t \in branches \ taken THEN "SKIPPED_BRANCH"
                            ELSE "SUCCESS"]
            /\ relay = [k \in K |-> written[k]]
            /\ selected = [t \in DecisionTasks |->
                              CASE t = "check_source_freshness" -> rf.ret
                                [] t = "check_late_arrivals" -> rl.ret
                                [] t = "check_schema_changes" -> rs.ret]
            /\ reported = [t \in DecisionTasks |->
                              CASE t = "check_source_freshness" -> Report(pf)
                                [] t = "check_late_arrivals" -> Report(FinishedLateProbe)
                                [] t = "check_schema_changes" -> Report(ps)]
            /\ tries = [t \in Tasks |-> 0]
            /\ probe = [t \in DecisionTasks |-> NoProbe]
            /\ variant = "none"
            /\ failures = 0

NextCompose ==
    \/ Schedule
    \/ Dispatch
    \/ \E t \in Tasks : TaskSucceeds(t)
    \/ \E t \in Tasks : CommandFails(t)

SpecCompose == InitCompose /\ [][NextCompose]_vars

----------------------------------------------------------------------------
(* Properties *)

FCT == "fct_daily_listing_performance"
JOIN == "freshness_check_complete"

\* the task has started an attempt
Started(t) == status[t] \in {"RUNNING", "UP_FOR_RETRY", "SUCCESS", "FAILED"}

\* the step in which the branch callable of t returns
Returns(t) == status[t] = "RUNNING" /\ status'[t] = "SUCCESS"

UpstreamStatuses(t) == {status[u] : u \in Upstream(t)}
CountUpstream(t, s) == Cardinality({u \in Upstream(t) : status[u] = s})

\* C1: whenever fct_daily_listing_performance has been dispatched, it runs the
\* full-refresh variant exactly when the schema probe reported a change or the
\* late-arrival probe reported a count above 0.
C1_FullRefreshIffDriftOrLateRows ==
    (Started(FCT) /\ variant # "none") =>
        (variant = "full_refresh" <=>
            (reported["check_schema_changes"].drift
                \/ reported["check_late_arrivals"].lateRows))

\* C2: with one of the two relay entries it reads missing,
\* fct_daily_listing_performance never runs the incremental variant and ends FAILED.
C2_MissingEntryFails ==
    (~ Has(<<"check_schema_changes", "refresh_strategy">>)
        \/ ~ Has(<<"check_late_arrivals", "late_arrivals_detected">>)) =>
        /\ ~ (status[FCT] = "RUNNING" /\ variant = "incremental")
        /\ status[FCT] # "SUCCESS"

\* a probe result the decision cannot parse
Unparsable(t, p) ==
    CASE t = "check_source_freshness" -> p.artifact.file \in {"missing", "malformed"}
      [] t = "check_schema_changes" -> p.returncode # 0 /\ ~ p.marker
      [] t = "check_late_arrivals" -> ~ HasCount(p)

Fallback(t) ==
    CASE t = "check_source_freshness" -> "source_freshness_failed"
      [] t = "check_schema_changes" -> "schema_changed"
      [] t = "check_late_arrivals" -> "late_arrivals_detected"

\* C3: a decision whose probe result cannot be parsed selects its conservative
\* fallback branch.
C3_UnparsableSelectsFallback ==
    [][\A t \in DecisionTasks :
          (Returns(t) /\ Unparsable(t, probe[t])) => selected'[t] = Fallback(t)]_vars

FreshnessReportedError ==
    /\ reported["check_source_freshness"] # NoProbe
    /\ reported["check_source_freshness"].sourceError

ScenarioA_Outcome ==
    /\ selected["check_source_freshness"] = "source_freshness_failed"
    /\ status["source_freshness_passed"] = "SKIPPED_BRANCH"
    /\ status["source_freshness_warning"] = "SKIPPED_BRANCH"
    /\ AllTerminal =>
          /\ status["source_freshness_failed"] = "FAILED"
          /\ status[JOIN] = "SKIPPED_UPSTREAM"
          /\ RunOutcome = "Failed"

\* C4 as stated: after the freshness probe reported a source with status error,
\* source_freshness_failed is selected and ends FAILED, the join sees
\* {FAILED, SKIPPED_BRANCH, SKIPPED_BRANCH}, is SKIPPED_UPSTREAM, and the run is Failed.
C4_JoinSeesFailedHandler ==
    FreshnessReportedError =>
        /\ ScenarioA_Outcome
        /\ AllTerminal =>
              /\ Cardinality(Upstream(JOIN)) = 3
              /\ CountUpstream(JOIN, "FAILED") = 1
              /\ CountUpstream(JOIN, "SKIPPED_BRANCH") = 2

\* C4 amended: the same, but the join has two upstreams, source_freshness_passed
\* and source_freshness_warning, and sees {SKIPPED_BRANCH, SKIPPED_BRANCH}.
C4_JoinSeesSkippedBranches ==
    FreshnessReportedError =>
        /\ ScenarioA_Outcome
        /\ Upstream(JOIN) = {"source_freshness_passed", "source_freshness_warning"}
        /\ CountUpstream(JOIN, "SKIPPED_BRANCH") = 2

C4_Witness ==
    /\ FreshnessReportedError
    /\ AllTerminal
    /\ status["source_freshness_failed"] = "FAILED"
    /\ status[JOIN] = "SKIPPED_UPSTREAM"

\* C5: once check_source_freshness has selected source_freshness_failed, no task
\* downstream of freshness_check_complete is queued, running or successful.
C5_FailureBranchBlocksPipeline ==
    selected["check_source_freshness"] = "source_freshness_failed" =>
        \A t \in Descendants(JOIN) :
            status[t] \in {"PENDING", "SKIPPED_UPSTREAM"} /\ tries[t] = 0

C5_Witness ==
    /\ selected["check_source_freshness"] = "source_freshness_failed"
    /\ AllTerminal
    /\ status["end"] = "SKIPPED_UPSTREAM"

\* every probe returned a clean result and no attempt failed
ScenarioC ==
    /\ \A t \in DecisionTasks : reported[t] # NoProbe
    /\ reported["check_source_freshness"].allFresh
    /\ ~ reported["check_schema_changes"].drift
    /\ ~ reported["check_late_arrivals"].lateRows
    /\ failures = 0

\* C6: when every source is fresh, no schema change and no late row is reported
\* and no command fails, the finished run took the passed, clean and unchanged
\* branches, ran the incremental variant, left every task SUCCESS or
\* SKIPPED_BRANCH, and its outcome is Success.
C6_CleanRunSucceedsIncrementally ==
    (AllTerminal /\ ScenarioC) =>
        /\ selected["check_source_freshness"] = "source_freshness_passed"
        /\ selected["check_late_arrivals"] = "late_arrivals_clean"
        /\ selected["check_schema_changes"] = "schema_unchanged"
        /\ variant = "incremental"
        /\ \A t \in Tasks : status[t] \in {"SUCCESS", "SKIPPED_BRANCH"}
        /\ {t \in Tasks : status[t] = "SKIPPED_BRANCH"} =
              {"source_freshness_warning", "source_freshness_failed",
               "late_arrivals_detected", "schema_changed"}
        /\ status["end"] = "SUCCESS"
        /\ RunOutcome = "Success"

C6_Witness == AllTerminal /\ ScenarioC /\ status["end"] = "SUCCESS"

Layers ==
    <<staging_group, intermediate_group, marts_group, analytics_group,
      {"dbt_test"}, {"dbt_docs_generate"}, {"end"}>>

\* C7: a dbt task starts only after check_source_freshness succeeded, a task of
\* a layer only after every task of the layer before it succeeded, and the marts
\* tasks in the order dim_date, dim_hosts; dim_listings; the daily fact; the
\* monthly facts.
C7_LayersInOrder ==
    /\ \A t \in BashTasks :
          (Started(t) \/ status[t] = "QUEUED") => status["check_source_freshness"] = "SUCCESS"
    /\ \A i \in 1..(Len(Layers) - 1) : \A t \in Layers[i + 1] :
          (Started(t) \/ status[t] = "QUEUED") => \A u \in Layers[i] : status[u] = "SUCCESS"
    /\ Started("dim_listings") =>
          status["dim_date"] = "SUCCESS" /\ status["dim_hosts"] = "SUCCESS"
    /\ Started(FCT) => status["dim_listings"] = "SUCCESS"
    /\ \A t \in {"fct_monthly_listing_performance", "fct_monthly_neighborhood_summary"} :
          Started(t) => status[FCT] = "SUCCESS"

C7_Witness ==
    /\ status["end"] = "RUNNING"
    /\ \A t \in BashTasks : status[t] = "SUCCESS"

NoneFailedMinOneSuccess(ups) ==
    ups \subseteq Terminal /\ "FAILED" \notin ups /\ "SUCCESS" \in ups

\* C8: a join is queued, running or successful only with every upstream
\* terminal, none FAILED and one SUCCESS; it is SKIPPED_UPSTREAM only otherwise;
\* in a finished run it is SUCCESS exactly in the first case.  Upstreams
\* {SUCCESS, SKIPPED_BRANCH} are Ready, {FAILED, SUCCESS} and {SKIPPED_BRANCH}
\* are Blocked.
C8_JoinRunsIffNoneFailedOneSuccess ==
    /\ \A j \in Joins :
          /\ status[j] \in {"QUEUED", "RUNNING", "SUCCESS"} =>
                NoneFailedMinOneSuccess(UpstreamStatuses(j))
          /\ status[j] = "SKIPPED_UPSTREAM" =>
                ~ NoneFailedMinOneSuccess(UpstreamStatuses(j))
          /\ status[j] \notin {"FAILED", "UP_FOR_RETRY", "SKIPPED_BRANCH"}
          /\ AllTerminal =>
                (status[j] = "SUCCESS" <=> NoneFailedMinOneSuccess(UpstreamStatuses(j)))
    /\ ready("none_failed_min_one_success", {"SUCCESS", "SKIPPED_BRANCH"}) = "Ready"
    /\ ready("none_failed_min_one_success", {"FAILED", "SUCCESS"}) = "Blocked"
    /\ ready("none_failed_min_one_success", {"SKIPPED_BRANCH"}) = "Blocked"

C8_Witness ==
    \E j \in Joins :
        /\ status[j] = "SUCCESS"
        /\ UpstreamStatuses(j) = {"SUCCESS", "SKIPPED_BRANCH"}

\* C9: check_late_arrivals returns late_arrivals_detected exactly when its
\* output holds LATE_ARRIVAL_COUNT=<n> with n > 0, late_arrivals_clean otherwise,
\* and writes late_arrival_count = n and late_arrivals_detected = (n > 0).
C9_BranchFollowsReportedCount ==
    [][Returns("check_late_arrivals") =>
          LET n == ReportedCount(probe["check_late_arrivals"])
          IN  /\ selected'["check_late_arrivals"] =
                    IF n > 0 THEN "late_arrivals_detected" ELSE "late_arrivals_clean"
              /\ relay'[<<"check_late_arrivals", "late_arrival_count">>] = n
              /\ relay'[<<"check_late_arrivals", "late_arrivals_detected">>] = (n > 0)]_vars

\* the branch by the statuses of the probed sources: error before warn before pass
WorstStatusBranch(p) ==
    IF InResults(p, "error") THEN "source_freshness_failed"
    ELSE IF InResults(p, "warn") THEN "source_freshness_warning"
    ELSE "source_freshness_passed"

\* C10 as stated, for an artifact that lists at least one source:
\* check_source_freshness returns the branch of the worst status among the
\* probed sources.
C10_BranchIsWorstStatus ==
    [][(/\ Returns("check_source_freshness")
        /\ probe["check_source_freshness"].artifact.file = "ok"
        /\ probe["check_source_freshness"].artifact.results # <<>>) =>
          selected'["check_source_freshness"] =
              WorstStatusBranch(probe["check_source_freshness"])]_vars

\* C10 amended: it does so unless the probe exited non-zero with Runtime Error in
\* its stderr; then it returns source_freshness_failed without reading the artifact.
C10_BranchIsWorstStatusUnlessRuntimeError ==
    [][Returns("check_source_freshness") =>
          LET p == probe["check_source_freshness"]
          IN  selected'["check_source_freshness"] =
                  IF p.returncode # 0 /\ p.stderrRuntimeError
                  THEN "source_freshness_failed"
                  ELSE WorstStatusBranch(p)]_vars

C10_Witness ==
    /\ Has(<<"check_source_freshness", "freshness_results">>)
    /\ relay[<<"check_source_freshness", "freshness_results">>].warned # <<>>
    /\ relay[<<"check_source_freshness", "freshness_results">>].errored # <<>>
    /\ selected["check_source_freshness"] = "source_freshness_failed"

\* the task ids in the return statements of the branch callables
ReturnStatements(t) ==
    CASE t = "check_source_freshness" ->
            {"source_freshness_failed", "source_freshness_warning",
             "source_freshness_passed"}
      [] t = "check_schema_changes" -> {"schema_changed", "schema_unchanged"}
      [] t = "check_late_arrivals" -> {"late_arrivals_detected", "late_arrivals_clean"}

\* C11: whatever its probe gave it, the branch a decision task is about to
\* return, and the branch it has returned, is one of the task ids of its return
\* statements, and each of those is a direct successor of the decision task.
C11_BranchesAreDirectSuccessors ==
    \A t \in DecisionTasks :
        /\ ReturnStatements(t) \subseteq Downstream(t)
        /\ selected[t] # "none" =>
              selected[t] \in ReturnStatements(t) /\ selected[t] \in Downstream(t)
        /\ (status[t] = "RUNNING" /\ ~ Raises(t)) =>
              /\ python_callable(t, probe[t]).ret \in ReturnStatements(t)
              /\ python_callable(t, probe[t]).ret \in Downstream(t)

C11_Witness ==
    /\ \A t \in DecisionTasks : selected[t] # "none"
    /\ selected["check_source_freshness"] = "source_freshness_warning"
    /\ selected["check_schema_changes"] = "schema_unchanged"

\* the keys a decision task pushes
KeysOf(t) == {k \in RelayKeys : k[1] = t}

\* C12: the relay changes only in the step in which a branch callable returns;
\* that step writes exactly the keys of that task, none of which was in the
\* relay before, also when earlier attempts of the task failed; entries already
\* written stay as they are.
C12_EachPairWrittenOnce ==
    [][/\ \A t \in DecisionTasks :
             Returns(t) =>
                /\ DOMAIN python_callable(t, probe[t]).push = KeysOf(t)
                /\ KeysOf(t) \cap DOMAIN relay = {}
                /\ DOMAIN relay' = DOMAIN relay \cup KeysOf(t)
       /\ (\A t \in DecisionTasks : ~ Returns(t)) => relay' = relay
       /\ \A k \in DOMAIN relay : k \in DOMAIN relay' /\ relay'[k] = relay[k]]_vars

\* check_source_freshness has written after a failed attempt: besides it only
\* start, which cannot fail, has run
C12_Witness ==
    /\ status["check_source_freshness"] = "SUCCESS"
    /\ failures > 0
    /\ Has(<<"check_source_freshness", "freshness_results">>)
    /\ \A t \in Tasks \ {"start", "check_source_freshness"} :
          status[t] \in {"PENDING", "SKIPPED_BRANCH"}

\* the trigger rule each task declares
DeclaredRule(t) ==
    IF t = "source_freshness_failed" THEN "all_done"
    ELSE IF t \in Joins THEN "none_failed_min_one_success"
    ELSE "all_success"

\* C13: a task that is queued, running, waiting for a retry, successful or
\* failed has upstream statuses on which its declared trigger rule is Ready.
C13_RunsOnlyWhenReady ==
    \A t \in Tasks :
        (Started(t) \/ status[t] = "QUEUED") =>
            ready(DeclaredRule(t), UpstreamStatuses(t)) = "Ready"

C13_Witness ==
    /\ status["dim_listings"] = "RUNNING"
    /\ Cardinality(Upstream("dim_listings")) = 2
    /\ status["source_freshness_failed"] = "SKIPPED_BRANCH"

\* C14: the step in which a branch callable returns leaves every direct
\* successor it did not return SKIPPED_BRANCH; a task that is SKIPPED_BRANCH
\* stays so, and a successor that was not returned is never running, whatever
\* its trigger rule.
C14_UnselectedBranchesSkipped ==
    [][/\ \A t \in DecisionTasks :
             Returns(t) =>
                \A u \in Downstream(t) \ {selected'[t]} : status'[u] = "SKIPPED_BRANCH"
       /\ \A u \in Tasks :
             status[u] = "SKIPPED_BRANCH" => status'[u] = "SKIPPED_BRANCH"
       /\ \A t \in DecisionTasks : \A u \in Downstream(t) :
             (status'[t] = "SUCCESS" /\ u # selected'[t]) =>
                status'[u] \notin {"QUEUED", "RUNNING"}]_vars

C14_Witness ==
    /\ selected["check_source_freshness"] = "source_freshness_passed"
    /\ status["source_freshness_failed"] = "SKIPPED_BRANCH"
    /\ status["source_freshness_warning"] = "SKIPPED_BRANCH"
    /\ AllTerminal
    /\ status["end"] = "SUCCESS"

\* C15: a decision task that is SUCCESS has every one of its entries in the relay.
C15_EntriesExistAtSuccess ==
    \A t \in DecisionTasks :
        status[t] = "SUCCESS" => KeysOf(t) \subseteq DOMAIN relay

\* check_source_freshness succeeded by its early return
C15_Witness ==
    /\ status["check_source_freshness"] = "SUCCESS"
    /\ Has(<<"check_source_freshness", "freshness_results">>)
    /\ relay[<<"check_source_freshness", "freshness_results">>].runtime_error = "stderr"

\* C16: while fct_daily_listing_performance is queued or running,
\* check_schema_changes and check_late_arrivals are SUCCESS and the two entries
\* its command reads are in the relay.
C16_ComposerEntriesExist ==
    status[FCT] \in {"QUEUED", "RUNNING"} =>
        /\ status["check_schema_changes"] = "SUCCESS"
        /\ status["check_late_arrivals"] = "SUCCESS"
        /\ Has(<<"check_schema_changes", "refresh_strategy">>)
        /\ Has(<<"check_late_arrivals", "late_arrivals_detected">>)

C16_Witness ==
    /\ status[FCT] = "RUNNING"
    /\ variant = "full_refresh"
    /\ relay[<<"check_schema_changes", "refresh_strategy">>] = "full_refresh"

\* C17: once check_source_freshness is FAILED, or has returned
\* source_freshness_failed, source_freshness_failed is eventually started.
C17_FailureHandlerEventuallyDispatched ==
    (\/ status["check_source_freshness"] = "FAILED"
     \/ selected["check_source_freshness"] = "source_freshness_failed")
        ~> Started("source_freshness_failed")

\* the handler ran after check_source_freshness failed every attempt
C17_Witness ==
    /\ status["check_source_freshness"] = "FAILED"
    /\ Started("source_freshness_failed")
    /\ status[JOIN] = "SKIPPED_UPSTREAM"

\* reading the artifact raises: it is there, is not valid JSON, and the early
\* return was not taken
ParseRaises(p) ==
    p.artifact.file = "malformed" /\ ~ (p.returncode # 0 /\ p.stderrRuntimeError)

\* C18: an attempt of check_source_freshness whose reading of the artifact
\* raises does not raise itself; when it returns, the task is SUCCESS, a direct
\* successor is selected and the freshness_results it wrote has a runtime_error
\* that is not None.
C18_ParseErrorIsRecorded ==
    [][LET t == "check_source_freshness"
           k == <<"check_source_freshness", "freshness_results">>
       IN  /\ (status[t] = "RUNNING" /\ ParseRaises(probe[t])) => ~ Raises(t)
           /\ (Returns(t) /\ ParseRaises(probe[t])) =>
                 /\ status'[t] = "SUCCESS"
                 /\ selected'[t] \in Downstream(t)
                 /\ k \in DOMAIN relay'
                 /\ relay'[k].runtime_error # "None"]_vars

C18_Witness ==
    /\ status["check_source_freshness"] = "SUCCESS"
    /\ selected["check_source_freshness"] = "source_freshness_passed"
    /\ relay[<<"check_source_freshness", "freshness_results">>].runtime_error = "exception"

\* the artifact lists sources that pass and sources that warn, none in error,
\* and is read
Mixed(p) ==
    /\ ~ (p.returncode # 0 /\ p.stderrRuntimeError)
    /\ InResults(p, "pass")
    /\ InResults(p, "warn")
    /\ ~ InResults(p, "error")

C20_TerminalStatusIsFinal ==
    [][\A t \in Tasks :
          /\ status[t] \in {"SUCCESS", "FAILED", "SKIPPED_BRANCH", "SKIPPED_UPSTREAM"} =>
                status'[t] = status[t]
          /\ (status'[t] = "FAILED" /\ status[t] # "FAILED") =>
                status[t] = "RUNNING" /\ tries[t] = retries]_vars

\* a command failed its three attempts in a run that is over, with branches skipped
C20_Witness ==
    /\ AllTerminal
    /\ status["dbt_deps"] = "FAILED"
    /\ failures = retries + 1
    /\ status["source_freshness_failed"] = "SKIPPED_BRANCH"
    /\ status["end"] = "SKIPPED_UPSTREAM"

\* C21: a run in which the scheduler keeps working and every attempt ends
\* reaches a state in which every task is SUCCESS, FAILED, SKIPPED_BRANCH or
\* SKIPPED_UPSTREAM, whatever the probes report and whichever attempts fail.
C21_RunReachesTerminalState == <>AllTerminal

\* a finished run in which a branch callable failed every attempt
C21_Witness ==
    /\ AllTerminal
    /\ status["check_late_arrivals"] = "FAILED"
    /\ status["late_arrivals_check_complete"] = "SKIPPED_UPSTREAM"
    /\ status["source_freshness_warning"] = "SUCCESS"

\* the direct successors of t that are not SKIPPED_BRANCH
BranchesTaken(t) == {u \in Downstream(t) : status[u] # "SKIPPED_BRANCH"}

\* C22: once check_schema_changes is SUCCESS, refresh_strategy is full_refresh
\* exactly when schema_changed was selected and incremental exactly when
\* schema_unchanged was; once check_late_arrivals is SUCCESS,
\* late_arrivals_detected is True exactly when the branch late_arrivals_detected
\* was selected; each of the two has selected exactly one branch.
C22_RelayAgreesWithBranch ==
    /\ status["check_schema_changes"] = "SUCCESS" =>
          LET v == relay[<<"check_schema_changes", "refresh_strategy">>]
              b == selected["check_schema_changes"]
          IN  /\ v \in {"full_refresh", "incremental"}
              /\ v = "full_refresh" <=> b = "schema_changed"
              /\ v = "incremental" <=> b = "schema_unchanged"
              /\ BranchesTaken("check_schema_changes") = {b}
    /\ status["check_late_arrivals"] = "SUCCESS" =>
          LET v == relay[<<"check_late_arrivals", "late_arrivals_detected">>]
              b == selected["check_late_arrivals"]
          IN  /\ v \in BOOLEAN
              /\ v <=> b = "late_arrivals_detected"
              /\ ~ v <=> b = "late_arrivals_clean"
              /\ v <=> relay[<<"check_late_arrivals", "late_arrival_count">>] > 0
              /\ BranchesTaken("check_late_arrivals") = {b}

C22_Witness ==
    /\ status["check_schema_changes"] = "SUCCESS"
    /\ status["check_late_arrivals"] = "SUCCESS"
    /\ selected["check_schema_changes"] = "schema_changed"
    /\ relay[<<"check_schema_changes", "refresh_strategy">>] = "full_refresh"
    /\ selected["check_late_arrivals"] = "late_arrivals_clean"
    /\ status["schema_unchanged"] = "SKIPPED_BRANCH"

====
